---- MODULE Spec2Model ----
(***************************************************************************)
(* Model of the persistence layer of sciris:                               *)
(*   sciris/sc_fileio.py      dumpstr / loadstr / saveobj / loadobj and    *)
(*                            the unpickler fallback chain                 *)
(*   scirisweb/sc_datastore.py  StoreObjectHandle and DataStore            *)
(*                                                                         *)
(* Strings that the code takes apart or glues together (type prefixes,    *)
(* file suffixes, uid.hex, file names, Redis keys) are sequences of       *)
(* one-character strings, so that '%s-%s' formatting, os.path.basename    *)
(* and sanitizefilename are computed as the code computes them.  The      *)
(* interpreter is Python 3 (>= 3.7): a dict iterates in the order its     *)
(* keys were first inserted, and exec() cannot bind a function's locals.  *)
(***************************************************************************)
EXTENDS Integers, Sequences, FiniteSets, TLC

VARIABLES
    db_mode,        \* DataStore.db_mode: "redis" or "file"
    handle_dict,    \* DataStore.handle_dict: ordered dict, a sequence of handles, one per key
    redis_db,       \* the Redis database: key -> value
    files,          \* the file system: full path -> file content
    failure_info,   \* Failed.failure_info (class attribute shared by all loads)
    ret,            \* outcome of the last DataStore call (what the caller observes)
    ser,            \* outcome of the last sc_fileio call (what the caller observes)
    inserted,       \* history: uids in the order their current handle was put in the index
    keyorder,       \* history: uids in the order their key first entered the index
    calls,          \* history: number of state-changing DataStore calls made so far
    expect,         \* history: per uid, what the last add/update/delete of it did to its payload
    lastsave,       \* history: the index and the mode the last save() wrote, None before any
    pc,             \* per caller: where it is in the DataStore method it runs, and its locals
    other,          \* handle_dict of a second DataStore object connected to the same backend
    hist            \* history of the step-wise runs: the call that was interrupted, overlaps

vars == <<db_mode, handle_dict, redis_db, files, failure_info, ret, ser, inserted, keyorder, calls,
          expect, lastsave, pc, other, hist>>

(***************************************************************************)
(* Bounds of the model                                                     *)
(***************************************************************************)
MaxCalls == 3       \* state-changing DataStore calls per run (lookups are not counted)
MaxFailures == 2    \* loads stop being started once failure_info holds this many entries
MaxRefs == 2        \* globals named by a pickle stream that was written elsewhere

(***************************************************************************)
(* Small generic helpers                                                   *)
(***************************************************************************)
Range(s) == {s[i] : i \in 1..Len(s)}

\* A local variable: the value v is computed once and the rest, f, reads it by name
With(v, f(_)) == f(v)

None == [none |-> TRUE]     \* Python's None where an object, a handle or a byte string is expected
NoneUid == <<"None">>       \* Python's None where a UUID is expected

(***************************************************************************)
(* Persistence interpreter and class environment                           *)
(***************************************************************************)
PY3 == TRUE

\* A class (or global) reference in a pickle stream: dotted module path and name.
SimpleRef   == [module |-> <<"simple">>, name |-> "Simple"]
CreateFnRef == [module |-> <<"dill", "_dill">>, name |-> "_create_function"]
HandleRef   == [module |-> <<"scirisweb", "sc_datastore">>, name |-> "StoreObjectHandle"]
NestedRef   == [module |-> <<"pkg", "sub">>, name |-> "Nested"]
GoneRef     == [module |-> <<"gone">>, name |-> "Gone"]
DillMainRef == [module |-> <<"__builtin__">>, name |-> "__main__"]
FailedRef   == [module |-> <<"sciris", "sc_fileio">>, name |-> "Failed"]

\* What the loading process can import: module.name exists.
Defined == {SimpleRef, CreateFnRef, HandleRef, NestedRef, FailedRef}
\* Names a top-level package re-exports from a submodule (getattr on the package finds them).
Reexported == {HandleRef}


(***************************************************************************)
(* Objects, pickle streams and byte strings                                *)
(*   object : [kind, classes, val]   kind "data" = primitives, containers  *)
(*            and instances of importable classes; "func" = lambdas and    *)
(*            closures (only dill serializes them); "gen" = generators,    *)
(*            locks, open files (no serializer takes them)                 *)
(*   stream : [writer, kind, refs, val]  one pickle; refs are the globals  *)
(*            the stream names and find_class must resolve on load         *)
(*   bytes  : a sequence of streams (<<>> is the empty byte string)        *)
(*   gzip   : [gz |-> TRUE, data |-> bytes]                                *)
(***************************************************************************)
ObjX == [kind |-> "data", classes |-> <<>>, val |-> "x"]
ObjS == [kind |-> "data", classes |-> <<SimpleRef>>, val |-> "s"]
ObjF == [kind |-> "func", classes |-> <<>>, val |-> "f"]
ObjG == [kind |-> "gen", classes |-> <<>>, val |-> "g"]
NoObj == [kind |-> "none", classes |-> <<>>, val |-> ""]

Gzip(bytes) == [gz |-> TRUE, data |-> bytes]

\* pkl.dumps(obj, protocol=-1): the whole stream is built in memory, or an exception is raised
PklDumps(obj) ==
    IF obj.kind = "data"
    THEN [ok |-> TRUE,
          bytes |-> <<[writer |-> "pickle", kind |-> obj.kind, refs |-> obj.classes, val |-> obj.val]>>]
    ELSE [ok |-> FALSE, bytes |-> <<>>]

\* dill.dumps(obj, protocol=-1): functions go by value, rebuilt on load by dill._dill._create_function
DillDumps(obj) ==
    CASE obj.kind = "data" ->
            [ok |-> TRUE,
             bytes |-> <<[writer |-> "dill", kind |-> obj.kind, refs |-> obj.classes, val |-> obj.val]>>]
      [] obj.kind = "func" ->
            [ok |-> TRUE,
             bytes |-> <<[writer |-> "dill", kind |-> obj.kind,
                          refs |-> <<CreateFnRef>> \o obj.classes, val |-> obj.val]>>]
      [] OTHER -> [ok |-> FALSE, bytes |-> <<>>]

\* The object a loader builds from a stream once its globals are resolved to classes
Build(s, classes) ==
    [kind |-> s.kind,
     classes |-> IF s.kind = "func" /\ classes # <<>> THEN Tail(classes) ELSE classes,
     val |-> s.val]

\* pickle.Unpickler.load with the find_class of the given loader: special = globals
\* that loader resolves itself, everything else must be importable
StockLoads(bytes, special) ==
    IF bytes = <<>> THEN [ok |-> FALSE, obj |-> NoObj]
    ELSE LET s == Head(bytes) IN
         IF s.kind # "trunc" /\ \A i \in 1..Len(s.refs) : s.refs[i] \in Defined \cup special
         THEN [ok |-> TRUE, obj |-> Build(s, s.refs)]
         ELSE [ok |-> FALSE, obj |-> NoObj]

PklLoads(string) == StockLoads(string, {})

DillLoads(string) == StockLoads(string, {DillMainRef})

(***************************************************************************)
(* Failed / makefailed / RobustUnpickler                                   *)
(***************************************************************************)
\* makefailed numbering every entry 'Failure 1'
makefailed_FirstKey(module_name, name, error, finfo) ==
    LET key == <<"Failure", 1>>
        entry == [key |-> key, module |-> module_name, class |-> name, error |-> error]
    IN IF \E i \in 1..Len(finfo) : finfo[i].key = key
       THEN [i \in 1..Len(finfo) |-> IF finfo[i].key = key THEN entry ELSE finfo[i]]
       ELSE Append(finfo, entry)

\* Failed.failure_info[key] = odict(module, class, error), key = 'Failure %s' % (len+1)
makefailed(module_name, name, error, finfo) ==
    LET key == <<"Failure", Len(finfo) + 1>>
        entry == [key |-> key, module |-> module_name, class |-> name, error |-> error]
    IN IF \E i \in 1..Len(finfo) : finfo[i].key = key
       THEN [i \in 1..Len(finfo) |-> IF finfo[i].key = key THEN entry ELSE finfo[i]]
       ELSE Append(finfo, entry)

Importable(module) == \E d \in Defined : d.module = module

\* RobustUnpickler.find_class: [raised, cls, failure_info]
find_class(ref, finfo) ==
    IF /\ Importable(ref.module)
       /\ \/ (Len(ref.module) = 1 /\ ref \in Defined)
          \/ ref \in Reexported
    THEN \* __import__ returned the top-level package and getattr found the name
         [raised |-> FALSE, cls |-> ref, failure_info |-> finfo]
    ELSE IF ref \in Defined
    THEN \* exec('from m import n as obj') succeeded: in Python 3 the local obj stays
         \* unbound and 'return obj' raises UnboundLocalError
         [raised |-> PY3, cls |-> ref, failure_info |-> finfo]
    ELSE [raised |-> FALSE, cls |-> FailedRef,
          failure_info |-> makefailed(ref.module, ref.name,
                              IF Importable(ref.module) THEN "ImportError" ELSE "ModuleNotFoundError",
                              finfo)]

RECURSIVE RobustResolve(_, _)
RobustResolve(refs, finfo) ==
    IF refs = <<>> THEN [raised |-> FALSE, classes |-> <<>>, failure_info |-> finfo]
    ELSE With(find_class(Head(refs), finfo), LAMBDA f :
         IF f.raised THEN [raised |-> TRUE, classes |-> <<>>, failure_info |-> f.failure_info]
         ELSE With(RobustResolve(Tail(refs), f.failure_info), LAMBDA r :
              [raised |-> r.raised, classes |-> <<f.cls>> \o r.classes,
               failure_info |-> r.failure_info]))

\* RobustUnpickler(io.BytesIO(string)).load()
RobustLoad(string, finfo) ==
    IF string = <<>> \/ Head(string).kind = "trunc"
    THEN [ok |-> FALSE, obj |-> NoObj, failure_info |-> finfo]
    ELSE With(RobustResolve(Head(string).refs, finfo), LAMBDA r :
         IF r.raised THEN [ok |-> FALSE, obj |-> NoObj, failure_info |-> r.failure_info]
         ELSE [ok |-> TRUE, obj |-> Build(Head(string), r.classes),
               failure_info |-> r.failure_info])

(***************************************************************************)
(* unpickler, loadstr, dumpstr                                             *)
(***************************************************************************)
\* unpickler trying dill.loads before pkl.loads
unpickler_DillFirst(string, die, finfo) ==
    With(DillLoads(string), LAMBDA q :
    IF q.ok
    THEN [raised |-> FALSE, obj |-> q.obj, attempts |-> <<"dill">>, failure_info |-> finfo]
    ELSE IF (IF die = "None" THEN FALSE ELSE die = "True")
    THEN [raised |-> TRUE, obj |-> NoObj, attempts |-> <<"dill">>, failure_info |-> finfo]
    ELSE With(PklLoads(string), LAMBDA p :
         IF p.ok
         THEN [raised |-> FALSE, obj |-> p.obj, attempts |-> <<"dill", "pickle">>,
               failure_info |-> finfo]
         ELSE With(RobustLoad(string, finfo), LAMBDA r :
              [raised |-> ~r.ok, obj |-> r.obj, attempts |-> <<"dill", "pickle", "robust">>,
               failure_info |-> r.failure_info])))

\* unpickler going on to the fallbacks whatever die is
unpickler_IgnoresDie(string, die, finfo) ==
    With(PklLoads(string), LAMBDA p :
    IF p.ok
    THEN [raised |-> FALSE, obj |-> p.obj, attempts |-> <<"pickle">>, failure_info |-> finfo]
    ELSE With(DillLoads(string), LAMBDA q :
         IF q.ok
         THEN [raised |-> FALSE, obj |-> q.obj, attempts |-> <<"pickle", "dill">>,
               failure_info |-> finfo]
         ELSE With(RobustLoad(string, finfo), LAMBDA r :
              [raised |-> ~r.ok, obj |-> r.obj, attempts |-> <<"pickle", "dill", "robust">>,
               failure_info |-> r.failure_info])))

\* unpickler(string, die): [raised, obj, attempts, failure_info]
unpickler(string, die, finfo) ==
    With(PklLoads(string), LAMBDA p :                      \* try: obj = pkl.loads(string)
    IF p.ok
    THEN [raised |-> FALSE, obj |-> p.obj, attempts |-> <<"pickle">>, failure_info |-> finfo]
    ELSE IF (IF die = "None" THEN FALSE ELSE die = "True")  \* if die: raise E
    THEN [raised |-> TRUE, obj |-> NoObj, attempts |-> <<"pickle">>, failure_info |-> finfo]
    ELSE With(DillLoads(string), LAMBDA q :                \* try: obj = dill.loads(string)
         IF q.ok
         THEN [raised |-> FALSE, obj |-> q.obj, attempts |-> <<"pickle", "dill">>,
               failure_info |-> finfo]
         ELSE With(RobustLoad(string, finfo), LAMBDA r :   \* except: RobustUnpickler(...).load()
              [raised |-> ~r.ok, obj |-> r.obj, attempts |-> <<"pickle", "dill", "robust">>,
               failure_info |-> r.failure_info])))

\* loadstr(string, die): gunzip the fake file, then unpickle; IO(None) is an empty file
loadstr(string, die, finfo) ==
    LET picklestring == IF string = None THEN <<>> ELSE string.data
    IN unpickler(picklestring, die, finfo)

\* savepickle as pkl.dump(obj, fileobj): what pickle had emitted before it failed stays
\* in the file
savepickle_Streaming(fileobj, obj) ==
    LET p == PklDumps(obj) IN
    IF p.ok THEN [raised |-> FALSE, fileobj |-> fileobj \o p.bytes]
    ELSE [raised |-> TRUE,
          fileobj |-> fileobj \o <<[writer |-> "pickle", kind |-> "trunc", refs |-> <<>>,
                                    val |-> obj.val]>>]

\* savepickle(fileobj, obj): fileobj.write(pkl.dumps(obj)); fileobj is what has been written
savepickle(fileobj, obj) ==
    LET p == PklDumps(obj) IN
    IF p.ok THEN [raised |-> FALSE, fileobj |-> fileobj \o p.bytes]
    ELSE [raised |-> TRUE, fileobj |-> fileobj]

\* savedill(fileobj, obj): fileobj.write(dill.dumps(obj))
savedill(fileobj, obj) ==
    LET p == DillDumps(obj) IN
    IF p.ok THEN [raised |-> FALSE, fileobj |-> fileobj \o p.bytes]
    ELSE [raised |-> TRUE, fileobj |-> fileobj]

\* try: savepickle  except: savedill   (dumpstr lines 103-104, saveobj lines 93-94)
PickleElseDill(fileobj, obj) ==
    With(savepickle(fileobj, obj), LAMBDA a :
    IF ~a.raised THEN a ELSE savedill(a.fileobj, obj))

\* dumpstr without output.seek(0): output.read() returns nothing
dumpstr_NoSeek(obj) ==
    With(PickleElseDill(<<>>, obj), LAMBDA w :
    [raised |-> w.raised, result |-> IF w.raised THEN None ELSE Gzip(<<>>)])

\* dumpstr(obj): [raised, result]
dumpstr(obj) ==
    With(PickleElseDill(<<>>, obj), LAMBDA w :
    [raised |-> w.raised, result |-> IF w.raised THEN None ELSE Gzip(w.fileobj)])


(***************************************************************************)
(* File names: sanitizefilename, makefilepath, saveobj, loadobj            *)
(***************************************************************************)
Cwd == <<"/", "w">>     \* os.getcwd()

RECURSIVE MapChars(_, _, _)
\* re.sub of a one-character class: every character of erase is dropped, every
\* character of under becomes "_"
MapChars(name, erase, under) ==
    IF name = <<>> THEN <<>>
    ELSE LET c == Head(name) IN
         (IF c \in erase THEN <<>> ELSE IF c \in under THEN <<"_">> ELSE <<c>>)
            \o MapChars(Tail(name), erase, under)

sanitizefilename(rawfilename) ==
    LET filtername == MapChars(rawfilename, {"!", "?", "\"", "'", "<", ">"}, {})
    IN MapChars(filtername, {}, {":", "/", "\\", "*", "|", ","})

\* index of the last "/" of a path, 0 if there is none
LastSep(path) ==
    LET S == {i \in 1..Len(path) : path[i] = "/"}
    IN IF S = {} THEN 0 ELSE CHOOSE i \in S : \A j \in S : j <= i

basename(path) == SubSeq(path, LastSep(path) + 1, Len(path))

dirname(path) ==
    LET k == LastSep(path) IN IF k <= 1 THEN SubSeq(path, 1, k) ELSE SubSeq(path, 1, k - 1)

abspath(folder) ==
    IF folder = <<>> \/ folder = <<".">> THEN Cwd
    ELSE IF Head(folder) = "/" THEN folder
    ELSE Cwd \o <<"/">> \o folder

\* makefilepath(filename, sanitize) with folder, ext and default left at None
makefilepath(filename, sanitize) ==
    LET base0 == basename(filename)
        base1 == IF base0 = <<>> THEN <<"d", "e", "f", "a", "u", "l", "t">> ELSE base0
        filebasename == IF sanitize THEN sanitizefilename(base1) ELSE base1
        filefolder == abspath(dirname(filename))
    IN filefolder \o <<"/">> \o filebasename

FsWrite(fs, path, content) ==
    [q \in DOMAIN fs \cup {path} |-> IF q = path THEN content ELSE fs[q]]

FsRemove(fs, path) == [q \in DOMAIN fs \ {path} |-> fs[q]]

\* saveobj(filename, obj, method): [raised, fullpath, files].  GzipFile(fullpath, 'wb')
\* truncates the file before anything is serialized.
saveobj(filename, obj, method, fs) ==
    With(makefilepath(filename, TRUE), LAMBDA fullpath :
    With(IF method = "dill" THEN savedill(<<>>, obj) ELSE PickleElseDill(<<>>, obj), LAMBDA w :
         [raised |-> w.raised, fullpath |-> fullpath,
          files |-> FsWrite(fs, fullpath, Gzip(w.fileobj))]))

\* loadobj(filename, die): [raised, obj, attempts, failure_info]
loadobj(filename, die, fs, finfo) ==
    With(makefilepath(filename, FALSE), LAMBDA path :
    IF path \notin DOMAIN fs \/ ~fs[path].gz
    THEN [raised |-> TRUE, obj |-> NoObj, attempts |-> <<>>, failure_info |-> finfo]
    ELSE unpickler(fs[path].data, die, finfo))


(***************************************************************************)
(* StoreObjectHandle                                                       *)
(***************************************************************************)
\* uuid.UUID values, named by their .hex (same length for all of them)
UUIDs == {<<"1">>, <<"2">>}

TypeLabels == {<<"o", "b", "j">>, <<"a", ":", "b">>}
DefaultSuffix == <<".", "o", "b", "j">>
InstanceLabels == {"", "L"}
StoreObjects == {ObjS, ObjF, ObjG}

\* sc.uuid(uid) for a uid that is a UUID (or its hex): that UUID
uuid(uid) == uid

StoreObjectHandle(uid, type_prefix, file_suffix, instance_label) ==
    [uid |-> uuid(uid), type_prefix |-> type_prefix, file_suffix |-> file_suffix,
     instance_label |-> instance_label]

\* '%s-%s' % (self.type_prefix, self.uid.hex)
key_name(h) == h.type_prefix \o <<"-">> \o h.uid

\* '%s%s%s' % (dir_path, os.sep, '%s-%s%s' % (type_prefix, uid.hex, file_suffix))
full_file_name(h, dir_path) ==
    dir_path \o <<"/">> \o (h.type_prefix \o <<"-">> \o h.uid \o h.file_suffix)

\* the file a relative path names for open() / os.path.exists() / os.remove()
ospath(path) == abspath(dirname(path)) \o <<"/">> \o basename(path)

RedisGet(db, key) == IF key \in DOMAIN db THEN db[key] ELSE None

RedisSet(db, key, value) == [q \in DOMAIN db \cup {key} |-> IF q = key THEN value ELSE db[q]]

RedisDelete(db, key) == [q \in DOMAIN db \ {key} |-> db[q]]

\* handle.redis_store(obj, redis_db): [raised, redis_db]
redis_store(h, obj, db) ==
    With(dumpstr(obj), LAMBDA d :
    IF d.raised THEN [raised |-> TRUE, redis_db |-> db]
    ELSE [raised |-> FALSE, redis_db |-> RedisSet(db, key_name(h), d.result)])

\* handle.redis_retrieve(redis_db): [raised, obj, attempts, failure_info]
redis_retrieve(h, db, finfo) == loadstr(RedisGet(db, key_name(h)), "None", finfo)

\* redis_delete that leaves the key in Redis
redis_delete_Keeps(h, db) == db

redis_delete(h, db) == RedisDelete(db, key_name(h))

\* handle.file_store(dir_path, obj): [raised, fullpath, files]
file_store(h, dir_path, obj, fs) == saveobj(full_file_name(h, dir_path), obj, "pickle", fs)

\* handle.file_retrieve(dir_path): [raised, obj, attempts, failure_info]
file_retrieve(h, dir_path, fs, finfo) == loadobj(full_file_name(h, dir_path), "None", fs, finfo)

\* handle.file_delete(dir_path): remove the file if it is there
file_delete(h, dir_path, fs) ==
    With(ospath(full_file_name(h, dir_path)), LAMBDA p :
    IF p \in DOMAIN fs THEN FsRemove(fs, p) ELSE fs)

(***************************************************************************)
(* DataStore: the ordered dict and the pure parts of its methods           *)
(***************************************************************************)
Keys(hd) == {hd[i].uid : i \in 1..Len(hd)}

\* [key for key in self.handle_dict]
KeySeq(hd) == [i \in 1..Len(hd) |-> hd[i].uid]

\* handle_dict.get(uid, None)
DictGet(hd, uid) ==
    IF uid \in Keys(hd) THEN hd[CHOOSE i \in 1..Len(hd) : hd[i].uid = uid] ELSE None

\* handle_dict = {uid: h}
DictSet_Reset(hd, uid, h) == <<h>>

\* handle_dict[uid] = h: a key already present keeps its place
DictSet(hd, uid, h) ==
    IF uid \in Keys(hd) THEN [i \in 1..Len(hd) |-> IF hd[i].uid = uid THEN h ELSE hd[i]]
    ELSE Append(hd, h)

\* del handle_dict[uid]
DictDel(hd, uid) == SelectSeq(hd, LAMBDA h : h.uid # uid)

DotDir == <<".">>

HandleDictKey == <<"s", "c", "i", "r", "i", "s", "d", "a", "t", "a", "s", "t", "o", "r", "e", "-",
                   "h", "a", "n", "d", "l", "e", "_", "d", "i", "c", "t">>
DbModeKey == <<"s", "c", "i", "r", "i", "s", "d", "a", "t", "a", "s", "t", "o", "r", "e", "-",
               "d", "b", "_", "m", "o", "d", "e">>
IndexFile == <<".", "\\", "s", "c", "i", "r", "i", "s", ".", "d", "s">>

\* the handle dictionary handed to the serializer as an empty dict
DictObj_Empty(hd) == [kind |-> "data", classes |-> <<>>, val |-> <<>>]

\* the handle dictionary and the mode string as objects handed to the serializer
DictObj(hd) == [kind |-> "data", classes |-> IF hd = <<>> THEN <<>> ELSE <<HandleRef>>, val |-> hd]
ModeObj(mode) == [kind |-> "data", classes |-> <<>>, val |-> mode]

\* if self.db_mode == 'redis': handle.redis_store(obj, self.redis_db)
\* else: handle.file_store('.', obj)                  (add and update): [raised, redis_db, files]
store(h, obj, mode, db, fs) ==
    IF mode = "redis"
    THEN With(redis_store(h, obj, db), LAMBDA r :
              [raised |-> r.raised, redis_db |-> r.redis_db, files |-> fs])
    ELSE With(file_store(h, DotDir, obj, fs), LAMBDA f :
              [raised |-> f.raised, redis_db |-> db, files |-> f.files])

\* save that writes nothing
save_Nothing(hd, mode, db, fs) == [redis_db |-> db, files |-> fs]

\* DataStore.save(): [redis_db, files]
save(hd, mode, db, fs) ==
    IF mode = "redis"
    THEN [redis_db |-> RedisSet(RedisSet(db, HandleDictKey, dumpstr(DictObj(hd)).result),
                                DbModeKey, dumpstr(ModeObj(mode)).result),
          files |-> fs]
    ELSE [redis_db |-> db,
          files |-> FsWrite(fs, ospath(IndexFile),
                            [gz |-> FALSE,
                             data |-> PklDumps(DictObj(hd)).bytes \o PklDumps(ModeObj(mode)).bytes])]

\* clear_redis_keys sparing the two keys of the persisted index
clear_redis_keys_PayloadsOnly(db) ==
    [q \in DOMAIN db \cap {HandleDictKey, DbModeKey} |-> db[q]]

\* DataStore.clear_redis_keys(): for key in self.redis_db.keys(): self.redis_db.delete(key)
clear_redis_keys(db) ==
    LET keys == DOMAIN db
    IN [q \in DOMAIN db \ keys |-> db[q]]

\* get_handle_by_uid making up a handle for a uid the index does not hold
get_handle_by_uid_Default(hd, uid) ==
    LET valid_uid == uuid(uid) IN
    IF valid_uid = NoneUid THEN None
    ELSE IF valid_uid \in Keys(hd) THEN DictGet(hd, valid_uid)
    ELSE StoreObjectHandle(valid_uid, <<"o", "b", "j">>, DefaultSuffix, "")

\* DataStore.get_handle_by_uid(uid)
get_handle_by_uid(hd, uid) ==
    LET valid_uid == uuid(uid) IN
    IF valid_uid # NoneUid THEN DictGet(hd, valid_uid) ELSE None

\* get_uid returning uid_matches[-1] instead of uid_matches[0]
get_uid_LastMatch(hd, type_prefix, instance_label) ==
    LET uid_matches == SelectSeq(hd, LAMBDA h : h.type_prefix = type_prefix
                                               /\ h.instance_label = instance_label)
    IN IF Len(uid_matches) = 0 THEN [result |-> NoneUid, warned |-> FALSE]
       ELSE [result |-> uid_matches[Len(uid_matches)].uid, warned |-> Len(uid_matches) > 1]

\* DataStore.get_uid(type_prefix, instance_label): [result, warned]
get_uid(hd, type_prefix, instance_label) ==
    LET uid_matches == SelectSeq(hd, LAMBDA h : h.type_prefix = type_prefix
                                               /\ h.instance_label = instance_label)
    IN IF Len(uid_matches) = 0 THEN [result |-> NoneUid, warned |-> FALSE]
       ELSE [result |-> uid_matches[1].uid, warned |-> Len(uid_matches) > 1]


\* delete calling self.save() before 'del self.handle_dict[valid_uid]'
delete_SaveFirst(uid, save_handle_changes, hd, mode, db, fs) ==
    With(uuid(uid), LAMBDA valid_uid :
    With(get_handle_by_uid(hd, valid_uid), LAMBDA handle :
    IF valid_uid = NoneUid \/ handle = None
    THEN [found |-> FALSE, handle |-> None, handle_dict |-> hd, redis_db |-> db, files |-> fs,
          saved |-> FALSE]
    ELSE With(IF mode = "redis" THEN redis_delete(handle, db) ELSE db, LAMBDA db1 :
         With(IF mode = "redis" THEN fs ELSE file_delete(handle, DotDir, fs), LAMBDA fs1 :
         With(IF save_handle_changes THEN save(hd, mode, db1, fs1)
              ELSE [redis_db |-> db1, files |-> fs1], LAMBDA sv :
              [found |-> TRUE, handle |-> handle, handle_dict |-> DictDel(hd, valid_uid),
               redis_db |-> sv.redis_db, files |-> sv.files,
               saved |-> save_handle_changes])))))

\* delete calling self.save() whatever save_handle_changes is
delete_AlwaysSaves(uid, save_handle_changes, hd, mode, db, fs) ==
    With(uuid(uid), LAMBDA valid_uid :
    With(get_handle_by_uid(hd, valid_uid), LAMBDA handle :
    IF valid_uid = NoneUid \/ handle = None
    THEN [found |-> FALSE, handle |-> None, handle_dict |-> hd, redis_db |-> db, files |-> fs,
          saved |-> FALSE]
    ELSE With(IF mode = "redis" THEN redis_delete(handle, db) ELSE db, LAMBDA db1 :
         With(IF mode = "redis" THEN fs ELSE file_delete(handle, DotDir, fs), LAMBDA fs1 :
         With(DictDel(hd, valid_uid), LAMBDA hd1 :
         With(save(hd1, mode, db1, fs1), LAMBDA sv :
              [found |-> TRUE, handle |-> handle, handle_dict |-> hd1,
               redis_db |-> sv.redis_db, files |-> sv.files,
               saved |-> save_handle_changes]))))))

\* delete without 'del self.handle_dict[valid_uid]'
delete_KeepsHandle(uid, save_handle_changes, hd, mode, db, fs) ==
    With(uuid(uid), LAMBDA valid_uid :
    With(get_handle_by_uid(hd, valid_uid), LAMBDA handle :
    IF valid_uid = NoneUid \/ handle = None
    THEN [found |-> FALSE, handle |-> None, handle_dict |-> hd, redis_db |-> db, files |-> fs,
          saved |-> FALSE]
    ELSE With(IF mode = "redis" THEN redis_delete(handle, db) ELSE db, LAMBDA db1 :
         With(IF mode = "redis" THEN fs ELSE file_delete(handle, DotDir, fs), LAMBDA fs1 :
         With(IF save_handle_changes THEN save(hd, mode, db1, fs1)
              ELSE [redis_db |-> db1, files |-> fs1], LAMBDA sv :
              [found |-> TRUE, handle |-> handle, handle_dict |-> hd,
               redis_db |-> sv.redis_db, files |-> sv.files,
               saved |-> save_handle_changes])))))

\* DataStore.delete(uid, save_handle_changes): [found, handle, handle_dict, redis_db, files, saved]
delete(uid, save_handle_changes, hd, mode, db, fs) ==
    With(uuid(uid), LAMBDA valid_uid :
    With(get_handle_by_uid(hd, valid_uid), LAMBDA handle :
    IF valid_uid = NoneUid \/ handle = None
    THEN [found |-> FALSE, handle |-> None, handle_dict |-> hd, redis_db |-> db, files |-> fs,
          saved |-> FALSE]
    ELSE With(IF mode = "redis" THEN redis_delete(handle, db) ELSE db, LAMBDA db1 :
         With(IF mode = "redis" THEN fs ELSE file_delete(handle, DotDir, fs), LAMBDA fs1 :
         With(DictDel(hd, valid_uid), LAMBDA hd1 :           \* del self.handle_dict[valid_uid]
         With(IF save_handle_changes THEN save(hd1, mode, db1, fs1)
              ELSE [redis_db |-> db1, files |-> fs1], LAMBDA sv :
              [found |-> TRUE, handle |-> handle, handle_dict |-> hd1,
               redis_db |-> sv.redis_db, files |-> sv.files,
               saved |-> save_handle_changes]))))))

RECURSIVE DeleteEach(_, _, _, _, _)
\* for key in all_keys: self.delete(key, save_handle_changes=False)
DeleteEach(all_keys, hd, mode, db, fs) ==
    IF all_keys = <<>> THEN [handle_dict |-> hd, redis_db |-> db, files |-> fs]
    ELSE With(delete(Head(all_keys), FALSE, hd, mode, db, fs), LAMBDA d :
         DeleteEach(Tail(all_keys), d.handle_dict, mode, d.redis_db, d.files))

\* DataStore.delete_all(): [handle_dict, redis_db, files]
delete_all(hd, mode, db, fs) ==
    With(KeySeq(hd), LAMBDA all_keys :
    With(DeleteEach(all_keys, hd, mode, db, fs), LAMBDA d :
    With(save(d.handle_dict, mode, d.redis_db, d.files), LAMBDA sv :
         [handle_dict |-> d.handle_dict, redis_db |-> sv.redis_db, files |-> sv.files])))

\* load starting from an empty index when the backend holds none
load_ResetsIndex(hd, mode, db, fs, finfo) ==
    IF mode = "redis"
    THEN IF RedisGet(db, HandleDictKey) = None
         THEN [printed |-> TRUE, raised |-> FALSE, handle_dict |-> <<>>, db_mode |-> mode,
               failure_info |-> finfo]
         ELSE With(loadstr(RedisGet(db, HandleDictKey), "None", finfo), LAMBDA a :
              IF a.raised
              THEN [printed |-> FALSE, raised |-> TRUE, handle_dict |-> hd, db_mode |-> mode,
                    failure_info |-> a.failure_info]
              ELSE With(loadstr(RedisGet(db, DbModeKey), "None", a.failure_info), LAMBDA b :
                   [printed |-> FALSE, raised |-> b.raised, handle_dict |-> a.obj.val,
                    db_mode |-> IF b.raised THEN mode ELSE b.obj.val,
                    failure_info |-> b.failure_info]))
    ELSE IF ospath(IndexFile) \notin DOMAIN fs
         THEN [printed |-> TRUE, raised |-> FALSE, handle_dict |-> <<>>, db_mode |-> mode,
               failure_info |-> finfo]
         ELSE With(fs[ospath(IndexFile)].data, LAMBDA infile :
              With(PklLoads(infile), LAMBDA a :
              IF ~a.ok
              THEN [printed |-> FALSE, raised |-> TRUE, handle_dict |-> hd, db_mode |-> mode,
                    failure_info |-> finfo]
              ELSE With(PklLoads(Tail(infile)), LAMBDA b :
                   [printed |-> FALSE, raised |-> ~b.ok, handle_dict |-> a.obj.val,
                    db_mode |-> IF b.ok THEN b.obj.val ELSE mode, failure_info |-> finfo])))

\* DataStore.load(): [printed, raised, handle_dict, db_mode, failure_info]
load(hd, mode, db, fs, finfo) ==
    IF mode = "redis"
    THEN IF RedisGet(db, HandleDictKey) = None
         THEN [printed |-> TRUE, raised |-> FALSE, handle_dict |-> hd, db_mode |-> mode,
               failure_info |-> finfo]
         ELSE With(loadstr(RedisGet(db, HandleDictKey), "None", finfo), LAMBDA a :
              IF a.raised
              THEN [printed |-> FALSE, raised |-> TRUE, handle_dict |-> hd, db_mode |-> mode,
                    failure_info |-> a.failure_info]
              ELSE With(loadstr(RedisGet(db, DbModeKey), "None", a.failure_info), LAMBDA b :
                   [printed |-> FALSE, raised |-> b.raised, handle_dict |-> a.obj.val,
                    db_mode |-> IF b.raised THEN mode ELSE b.obj.val,
                    failure_info |-> b.failure_info]))
    ELSE IF ospath(IndexFile) \notin DOMAIN fs
         THEN [printed |-> TRUE, raised |-> FALSE, handle_dict |-> hd, db_mode |-> mode,
               failure_info |-> finfo]
         ELSE With(fs[ospath(IndexFile)].data, LAMBDA infile :
              With(PklLoads(infile), LAMBDA a :
              IF ~a.ok
              THEN [printed |-> FALSE, raised |-> TRUE, handle_dict |-> hd, db_mode |-> mode,
                    failure_info |-> finfo]
              ELSE With(PklLoads(Tail(infile)), LAMBDA b :
                   [printed |-> FALSE, raised |-> ~b.ok, handle_dict |-> a.obj.val,
                    db_mode |-> IF b.ok THEN b.obj.val ELSE mode, failure_info |-> finfo])))


(***************************************************************************)
(* State machine of one DataStore object and its backend                   *)
(***************************************************************************)
\* the index a load() would read back from the backend
Persisted ==
    With(load(<<>>, db_mode, redis_db, files, failure_info), LAMBDA l :
         [present |-> ~l.printed /\ ~l.raised, handle_dict |-> l.handle_dict])

\* What the last call was and what it did.  arg = the uid passed to add, uid = the uid the
\* call was about (the one add returned), before = the index as the call found it,
\* mode = the mode as the call found it, persisted = the persisted index as the call found it,
\* unsaved = an add or a delete with save_handle_changes=False has changed the in-memory
\* index and nothing has saved the index since, backend = the backend as a call that
\* found no handle for its uid, or clear_redis_keys, found it.
NoCall(op) ==
    [op |-> op, arg |-> NoneUid, uid |-> NoneUid, obj |-> NoObj, handle |-> None, found |-> FALSE,
     raised |-> FALSE, saved |-> FALSE, warned |-> FALSE, printed |-> FALSE, shc |-> TRUE,
     prefix |-> <<>>, label |-> "", generated |-> FALSE, before |-> <<>>, mode |-> "",
     unsaved |-> FALSE, persisted |-> [present |-> FALSE, handle_dict |-> <<>>],
     backend |-> [redis_db |-> <<>>, files |-> <<>>]]

NoSer(op) ==
    [op |-> op, src |-> "none", obj |-> NoObj, string |-> None, die |-> "None", path |-> <<>>,
     raised |-> FALSE, result |-> NoObj, attempts |-> <<>>, unpickled |-> FALSE]

Unknown == [by |-> "none", obj |-> NoObj]

\* what a save() of the index hd by a store in the given mode has written
Saved(hd, mode) == [handle_dict |-> hd, db_mode |-> mode]

\* Threads that call the methods of the DataStore object
Callers == {1, 2}

\* A caller that is in no method.  at = the statement it is about to run; the other
\* fields are the locals of the method and what the method found when it was called.
Idle ==
    [at |-> "idle", op |-> "none", uid |-> NoneUid, obj |-> NoObj, handle |-> None,
     shc |-> TRUE, keys |-> <<>>, before |-> <<>>,
     persisted |-> [present |-> FALSE, handle_dict |-> <<>>], saves |-> 0]

NoHist == [stopped |-> Idle, lost |-> FALSE, quiet |-> TRUE, overlapped |-> FALSE,
           clients |-> FALSE]

StepVars == <<pc, other, hist>>

Without(seq, uid) == SelectSeq(seq, LAMBDA u : u # uid)

EmptyDb == [k \in {} |-> None]

\* DataStore.__init__ on an empty backend
Init ==
    /\ db_mode \in {"redis", "file"}
    /\ handle_dict = <<>>
    /\ redis_db = EmptyDb
    /\ files = EmptyDb
    /\ failure_info = <<>>
    /\ ret = NoCall("init")
    /\ ser = NoSer("none")
    /\ inserted = <<>>
    /\ keyorder = <<>>
    /\ calls = 0
    /\ expect = [u \in UUIDs |-> Unknown]
    /\ lastsave = None
    /\ pc = [c \in Callers |-> Idle]
    /\ other = <<>>
    /\ hist = NoHist

\* the uids of a byte string that holds a pickled handle dictionary
PickledKeys(content) ==
    IF content = None \/ content.data = <<>> THEN {} ELSE Keys(Head(content.data).val)

\* sc.uuid(None): a random UUID, one that nothing in the store or its backend carries yet
FreshUids ==
    {u \in UUIDs :
        /\ u \notin Keys(handle_dict)
        /\ u \notin PickledKeys(RedisGet(redis_db, HandleDictKey))
        /\ u \notin PickledKeys(RedisGet(files, ospath(IndexFile)))
        /\ \A t \in TypeLabels :
              LET h == StoreObjectHandle(u, t, DefaultSuffix, "") IN
              /\ key_name(h) \notin DOMAIN redis_db
              /\ makefilepath(full_file_name(h, DotDir), TRUE) \notin DOMAIN files}

\* DataStore.add(obj, uid, type_label, file_suffix, instance_label, save_handle_changes)
Add(obj, uid, type_label, file_suffix, instance_label, save_handle_changes) ==
    /\ calls < MaxCalls
    /\ \E valid_uid \in (IF uid = NoneUid THEN FreshUids ELSE {uuid(uid)}) :
       \E new_handle \in {StoreObjectHandle(valid_uid, type_label, file_suffix, instance_label)} :
       \E hd1 \in {DictSet(handle_dict, valid_uid, new_handle)} :
       \E st \in {store(new_handle, obj, db_mode, redis_db, files)} :
       \E sv \in {IF ~st.raised /\ save_handle_changes
                  THEN save(hd1, db_mode, st.redis_db, st.files)
                  ELSE [redis_db |-> st.redis_db, files |-> st.files]} :
         /\ handle_dict' = hd1
         /\ redis_db' = sv.redis_db
         /\ files' = sv.files
         /\ ret' = [NoCall("add") EXCEPT !.unsaved =
                                            (IF ~st.raised /\ save_handle_changes THEN FALSE
                                             ELSE IF ~save_handle_changes /\ hd1 # handle_dict
                                             THEN TRUE ELSE ret.unsaved),
                                         !.before = handle_dict, !.arg = uid,
                                         !.uid = valid_uid, !.obj = obj, !.handle = new_handle,
                                         !.found = TRUE, !.raised = st.raised,
                                         !.saved = ~st.raised /\ save_handle_changes,
                                         !.shc = save_handle_changes, !.prefix = type_label,
                                         !.label = instance_label, !.generated = (uid = NoneUid),
                                         !.persisted = Persisted]
         /\ inserted' = Append(Without(inserted, valid_uid), valid_uid)
         /\ keyorder' = IF valid_uid \in Range(keyorder) THEN keyorder
                         ELSE Append(keyorder, valid_uid)
         /\ calls' = calls + 1
         /\ expect' = [expect EXCEPT ![valid_uid] =
                          IF st.raised THEN Unknown ELSE [by |-> "add", obj |-> obj]]
         /\ lastsave' = IF ~st.raised /\ save_handle_changes THEN Saved(hd1, db_mode)
                         ELSE lastsave
         /\ UNCHANGED <<db_mode, failure_info, ser, StepVars>>

\* DataStore.retrieve(uid)
Retrieve(uid) ==
    \E handle \in {get_handle_by_uid(handle_dict, uuid(uid))} :
       /\ IF uuid(uid) # NoneUid /\ handle # None
          THEN \E r \in {IF db_mode = "redis"
                         THEN redis_retrieve(handle, redis_db, failure_info)
                         ELSE file_retrieve(handle, DotDir, files, failure_info)} :
                  /\ ret' = [NoCall("retrieve") EXCEPT !.unsaved = ret.unsaved,
                                                       !.before = handle_dict,
                                                       !.uid = uid, !.handle = handle,
                                                       !.found = ~r.raised, !.raised = r.raised,
                                                       !.obj = r.obj]
                  /\ failure_info' = r.failure_info
          ELSE /\ ret' = [NoCall("retrieve") EXCEPT !.unsaved = ret.unsaved,
                                                    !.backend = [redis_db |-> redis_db,
                                                                 files |-> files],
                                                    !.before = handle_dict,
                                                    !.uid = uid]
               /\ UNCHANGED failure_info
       /\ UNCHANGED <<db_mode, handle_dict, redis_db, files, ser, inserted, keyorder, calls,
                      expect, lastsave, StepVars>>

\* DataStore.update(uid, obj)
Update(uid, obj) ==
    /\ calls < MaxCalls
    /\ \E handle \in {get_handle_by_uid(handle_dict, uuid(uid))} :
          IF uuid(uid) # NoneUid /\ handle # None
          THEN \E st \in {store(handle, obj, db_mode, redis_db, files)} :
                  /\ redis_db' = st.redis_db
                  /\ files' = st.files
                  /\ ret' = [NoCall("update") EXCEPT !.unsaved = ret.unsaved,
                                                     !.before = handle_dict,
                                                     !.uid = uid, !.obj = obj,
                                                     !.handle = handle, !.found = TRUE,
                                                     !.raised = st.raised,
                                                     !.persisted = Persisted]
                  /\ expect' = [expect EXCEPT ![uuid(uid)] =
                                   IF st.raised THEN Unknown
                                   ELSE [by |-> "update", obj |-> obj]]
          ELSE /\ ret' = [NoCall("update") EXCEPT !.unsaved = ret.unsaved,
                                                  !.backend = [redis_db |-> redis_db,
                                                               files |-> files],
                                                  !.before = handle_dict,
                                                  !.uid = uid, !.obj = obj,
                                                  !.persisted = Persisted]
               /\ UNCHANGED <<redis_db, files, expect>>
    /\ calls' = calls + 1
    /\ UNCHANGED <<db_mode, handle_dict, failure_info, ser, inserted, keyorder, lastsave,
                   StepVars>>

\* DataStore.delete(uid, save_handle_changes)
Delete(uid, save_handle_changes) ==
    /\ calls < MaxCalls
    /\ \E d \in {delete(uid, save_handle_changes, handle_dict, db_mode, redis_db, files)} :
          /\ handle_dict' = d.handle_dict
          /\ redis_db' = d.redis_db
          /\ files' = d.files
          /\ ret' = [NoCall("delete") EXCEPT !.unsaved =
                                                (IF d.saved THEN FALSE
                                                 ELSE IF ~save_handle_changes /\ d.found
                                                 THEN TRUE ELSE ret.unsaved),
                                             !.backend = IF d.found THEN @
                                                          ELSE [redis_db |-> redis_db,
                                                                files |-> files],
                                             !.before = handle_dict,
                                             !.uid = uid, !.handle = d.handle,
                                             !.found = d.found, !.saved = d.saved,
                                             !.shc = save_handle_changes,
                                             !.persisted = Persisted]
          /\ expect' = IF d.found
                       THEN [expect EXCEPT ![uuid(uid)] = [by |-> "delete", obj |-> NoObj]]
                       ELSE expect
          /\ lastsave' = IF d.saved THEN Saved(d.handle_dict, db_mode) ELSE lastsave
    /\ inserted' = Without(inserted, uuid(uid))
    /\ keyorder' = Without(keyorder, uuid(uid))
    /\ calls' = calls + 1
    /\ UNCHANGED <<db_mode, failure_info, ser, StepVars>>

\* DataStore.delete_all()
DeleteAll ==
    /\ calls < MaxCalls
    /\ \E d \in {delete_all(handle_dict, db_mode, redis_db, files)} :
          /\ handle_dict' = d.handle_dict
          /\ redis_db' = d.redis_db
          /\ files' = d.files
          /\ lastsave' = Saved(d.handle_dict, db_mode)
    /\ ret' = [NoCall("delete_all") EXCEPT !.unsaved = FALSE,
                                           !.saved = TRUE, !.before = handle_dict,
                                           !.persisted = Persisted]
    /\ inserted' = <<>>
    /\ keyorder' = <<>>
    /\ expect' = [u \in UUIDs |-> IF u \in Keys(handle_dict) THEN Unknown ELSE expect[u]]
    /\ calls' = calls + 1
    /\ UNCHANGED <<db_mode, failure_info, ser, StepVars>>

\* DataStore.get_handle_by_uid(uid)
GetHandleByUid(uid) ==
    /\ \E handle \in {get_handle_by_uid(handle_dict, uid)} :
          ret' = [NoCall("get_handle_by_uid") EXCEPT !.unsaved = ret.unsaved,
                                                     !.before = handle_dict,
                                                     !.uid = uid, !.handle = handle,
                                                     !.found = (handle # None)]
    /\ UNCHANGED <<db_mode, handle_dict, redis_db, files, failure_info, ser, inserted, keyorder,
                   calls, expect, lastsave, StepVars>>

\* DataStore.get_uid(type_prefix, instance_label)
GetUid(type_prefix, instance_label) ==
    /\ \E g \in {get_uid(handle_dict, type_prefix, instance_label)} :
          ret' = [NoCall("get_uid") EXCEPT !.unsaved = ret.unsaved,
                                           !.before = handle_dict,
                                           !.uid = g.result, !.found = (g.result # NoneUid),
                                           !.warned = g.warned, !.prefix = type_prefix,
                                           !.label = instance_label]
    /\ UNCHANGED <<db_mode, handle_dict, redis_db, files, failure_info, ser, inserted, keyorder,
                   calls, expect, lastsave, StepVars>>

\* DataStore.save()
Save ==
    /\ calls < MaxCalls
    /\ \E sv \in {save(handle_dict, db_mode, redis_db, files)} :
          /\ redis_db' = sv.redis_db
          /\ files' = sv.files
    /\ ret' = [NoCall("save") EXCEPT !.unsaved = FALSE,
                                     !.before = handle_dict, !.saved = TRUE,
                                     !.persisted = Persisted]
    /\ lastsave' = Saved(handle_dict, db_mode)
    /\ calls' = calls + 1
    /\ UNCHANGED <<db_mode, handle_dict, failure_info, ser, inserted, keyorder, expect, StepVars>>

\* DataStore.load()
Load ==
    /\ calls < MaxCalls
    /\ \E l \in {load(handle_dict, db_mode, redis_db, files, failure_info)} :
          /\ handle_dict' = l.handle_dict
          /\ db_mode' = l.db_mode
          /\ failure_info' = l.failure_info
          /\ ret' = [NoCall("load") EXCEPT !.unsaved = ret.unsaved,
                                           !.persisted = Persisted,
                                           !.printed = l.printed, !.raised = l.raised,
                                           !.before = handle_dict, !.mode = db_mode]
          /\ inserted' = IF l.printed \/ l.handle_dict = handle_dict THEN inserted
                         ELSE KeySeq(l.handle_dict)
          /\ keyorder' = IF l.printed \/ l.handle_dict = handle_dict THEN keyorder
                         ELSE KeySeq(l.handle_dict)
    /\ calls' = calls + 1
    /\ UNCHANGED <<redis_db, files, ser, expect, lastsave, StepVars>>

\* DataStore.clear_redis_keys(): a store in file mode has no redis_db attribute
ClearRedisKeys ==
    /\ calls < MaxCalls
    /\ redis_db' = IF db_mode = "redis" THEN clear_redis_keys(redis_db) ELSE redis_db
    /\ ret' = [NoCall("clear_redis_keys") EXCEPT !.unsaved = ret.unsaved,
                                                 !.before = handle_dict,
                                                 !.mode = db_mode,
                                                 !.backend = [redis_db |-> redis_db,
                                                              files |-> files],
                                                 !.raised = (db_mode # "redis")]
    /\ calls' = calls + 1
    /\ expect' = [u \in UUIDs |-> IF db_mode = "redis" /\ expect[u].by \in {"add", "update"}
                                   THEN Unknown ELSE expect[u]]
    /\ lastsave' = IF db_mode = "redis" THEN None ELSE lastsave
    /\ UNCHANGED <<db_mode, handle_dict, files, failure_info, ser, inserted, keyorder, StepVars>>

\* One call of the DataStore API, its arguments drawn from the given sets
Call(objs, uidargs, flags) ==
    \/ \E obj \in objs, uid \in uidargs, type_label \in TypeLabels,
          save_handle_changes \in flags :
          Add(obj, uid, type_label, DefaultSuffix, "", save_handle_changes)
    \/ \E uid \in UUIDs : Retrieve(uid)
    \/ \E uid \in UUIDs, obj \in objs : Update(uid, obj)
    \/ \E uid \in UUIDs, save_handle_changes \in flags : Delete(uid, save_handle_changes)
    \/ DeleteAll
    \/ \E uid \in UUIDs : GetHandleByUid(uid)
    \/ \E type_prefix \in TypeLabels, instance_label \in InstanceLabels :
          GetUid(type_prefix, instance_label)
    \/ Save
    \/ Load
    \/ ClearRedisKeys

\* Callers that leave save_handle_changes at its default
Next == Call(StoreObjects, UUIDs \cup {NoneUid}, {TRUE})

Spec == Init /\ [][Next]_vars

\* Callers that also pass save_handle_changes=False
NextFlags == Call({ObjS, ObjG}, UUIDs, BOOLEAN)

SpecFlags == Init /\ [][NextFlags]_vars

\* A single caller of a Redis store that only adds, updates, deletes and reads back, with
\* objects the serializer takes: every call completes
NextLink ==
    \/ \E obj \in {ObjS, ObjF}, uid \in UUIDs \cup {NoneUid}, type_label \in TypeLabels :
          Add(obj, uid, type_label, DefaultSuffix, "", TRUE)
    \/ \E uid \in UUIDs : Retrieve(uid)
    \/ \E uid \in UUIDs, obj \in {ObjS, ObjF} : Update(uid, obj)
    \/ \E uid \in UUIDs : Delete(uid, TRUE)
    \/ DeleteAll

InitLink == Init /\ db_mode = "redis"

SpecLink == InitLink /\ [][NextLink]_vars


(***************************************************************************)
(* The methods of the DataStore statement by statement.  A caller runs one *)
(* method at a time; between two statements of it another caller may run,  *)
(* and the caller may be stopped.  Nothing in the code takes a lock.       *)
(***************************************************************************)
StepObjects == {ObjS}
StepLabel == <<"o", "b", "j">>      \* type_label='obj', the default of add

Running(c) == pc[c].at \notin {"idle", "done", "raised", "stopped"}

\* hist after a statement of caller c: it overlapped a call of another caller if that
\* one is inside a method; a call that may write has been made since the interruption
Stepped(c) ==
    [hist EXCEPT !.overlapped = @ \/ (\E d \in Callers \ {c} : Running(d)), !.quiet = FALSE]

\* self.delete(key) in the loop of delete_all: every delete saves
delete_all_shc_Default == TRUE

\* self.delete(key, save_handle_changes=False) in the loop of delete_all
delete_all_shc == FALSE

\* add, lines 293-295: valid_uid, new_handle, self.handle_dict[valid_uid] = new_handle
AddCall(c, obj, uid, type_label, save_handle_changes) ==
    /\ ~Running(c) /\ calls < MaxCalls
    /\ \E new_handle \in {StoreObjectHandle(uuid(uid), type_label, DefaultSuffix, "")} :
          /\ handle_dict' = DictSet(handle_dict, uuid(uid), new_handle)
          /\ pc' = [pc EXCEPT ![c] = [Idle EXCEPT !.at = "add_store", !.op = "add",
                                                  !.uid = uuid(uid), !.obj = obj,
                                                  !.handle = new_handle,
                                                  !.shc = save_handle_changes,
                                                  !.before = handle_dict,
                                                  !.persisted = Persisted]]
    /\ calls' = calls + 1
    /\ hist' = Stepped(c)
    /\ UNCHANGED <<db_mode, redis_db, files, failure_info, ret, ser, inserted, keyorder, expect,
                   lastsave, other>>

\* add, lines 296-299: put the object in Redis or in a file
AddStore(c) ==
    /\ pc[c].at = "add_store"
    /\ \E st \in {store(pc[c].handle, pc[c].obj, db_mode, redis_db, files)} :
          /\ redis_db' = st.redis_db
          /\ files' = st.files
          /\ pc' = [pc EXCEPT ![c].at = IF st.raised THEN "raised"
                                        ELSE IF pc[c].shc THEN "add_save" ELSE "done"]
    /\ hist' = Stepped(c)
    /\ UNCHANGED <<db_mode, handle_dict, failure_info, ret, ser, inserted, keyorder, calls,
                   expect, lastsave, other>>

\* add, lines 300-301: self.save()
AddSave(c) ==
    /\ pc[c].at = "add_save"
    /\ \E sv \in {save(handle_dict, db_mode, redis_db, files)} :
          /\ redis_db' = sv.redis_db
          /\ files' = sv.files
    /\ lastsave' = Saved(handle_dict, db_mode)
    /\ pc' = [pc EXCEPT ![c].at = "done", ![c].saves = @ + 1]
    /\ hist' = Stepped(c)
    /\ UNCHANGED <<db_mode, handle_dict, failure_info, ret, ser, inserted, keyorder, calls,
                   expect, other>>

\* update, lines 316-318: valid_uid, handle = self.get_handle_by_uid(valid_uid)
UpdateCall(c, uid, obj) ==
    /\ ~Running(c) /\ calls < MaxCalls
    /\ \E handle \in {get_handle_by_uid(handle_dict, uuid(uid))} :
          pc' = [pc EXCEPT ![c] = [Idle EXCEPT !.at = IF uuid(uid) # NoneUid /\ handle # None
                                                      THEN "update_store" ELSE "done",
                                               !.op = "update", !.uid = uuid(uid),
                                               !.obj = obj, !.handle = handle,
                                               !.before = handle_dict,
                                               !.persisted = Persisted]]
    /\ calls' = calls + 1
    /\ hist' = Stepped(c)
    /\ UNCHANGED <<db_mode, handle_dict, redis_db, files, failure_info, ret, ser, inserted,
                   keyorder, expect, lastsave, other>>

\* update, lines 319-323: overwrite the old copy of the object using the handle
UpdateStore(c) ==
    /\ pc[c].at = "update_store"
    /\ \E st \in {store(pc[c].handle, pc[c].obj, db_mode, redis_db, files)} :
          /\ redis_db' = st.redis_db
          /\ files' = st.files
          /\ pc' = [pc EXCEPT ![c].at = IF st.raised THEN "raised" ELSE "done"]
    /\ hist' = Stepped(c)
    /\ UNCHANGED <<db_mode, handle_dict, failure_info, ret, ser, inserted, keyorder, calls,
                   expect, lastsave, other>>

\* delete, lines 327-329: valid_uid, handle = self.get_handle_by_uid(valid_uid)
DeleteCall(c, uid, save_handle_changes) ==
    /\ ~Running(c) /\ calls < MaxCalls
    /\ \E handle \in {get_handle_by_uid(handle_dict, uuid(uid))} :
          pc' = [pc EXCEPT ![c] = [Idle EXCEPT !.at = IF uuid(uid) # NoneUid /\ handle # None
                                                      THEN "delete_payload" ELSE "done",
                                               !.op = "delete", !.uid = uuid(uid),
                                               !.handle = handle,
                                               !.shc = save_handle_changes,
                                               !.before = handle_dict,
                                               !.persisted = Persisted]]
    /\ calls' = calls + 1
    /\ hist' = Stepped(c)
    /\ UNCHANGED <<db_mode, handle_dict, redis_db, files, failure_info, ret, ser, inserted,
                   keyorder, expect, lastsave, other>>

\* delete, lines 330-333: delete the key or the file using the handle
DeletePayload(c) ==
    /\ pc[c].at = "delete_payload"
    /\ redis_db' = IF db_mode = "redis" THEN redis_delete(pc[c].handle, redis_db) ELSE redis_db
    /\ files' = IF db_mode = "redis" THEN files ELSE file_delete(pc[c].handle, DotDir, files)
    /\ pc' = [pc EXCEPT ![c].at = "delete_handle"]
    /\ hist' = Stepped(c)
    /\ UNCHANGED <<db_mode, handle_dict, failure_info, ret, ser, inserted, keyorder, calls,
                   expect, lastsave, other>>

\* delete, line 334: del self.handle_dict[valid_uid]; KeyError if the key is gone
DeleteHandle(c) ==
    /\ pc[c].at = "delete_handle"
    /\ IF pc[c].uid \in Keys(handle_dict)
       THEN /\ handle_dict' = DictDel(handle_dict, pc[c].uid)
            /\ pc' = [pc EXCEPT ![c].at = IF pc[c].shc THEN "delete_save"
                                          ELSE IF pc[c].op = "delete_all" THEN "delete_all_loop"
                                          ELSE "done"]
       ELSE /\ pc' = [pc EXCEPT ![c].at = "raised"]
            /\ UNCHANGED handle_dict
    /\ hist' = Stepped(c)
    /\ UNCHANGED <<db_mode, redis_db, files, failure_info, ret, ser, inserted, keyorder, calls,
                   expect, lastsave, other>>

\* delete, lines 335-336: self.save()
DeleteSave(c) ==
    /\ pc[c].at = "delete_save"
    /\ \E sv \in {save(handle_dict, db_mode, redis_db, files)} :
          /\ redis_db' = sv.redis_db
          /\ files' = sv.files
    /\ lastsave' = Saved(handle_dict, db_mode)
    /\ pc' = [pc EXCEPT ![c].at = IF pc[c].op = "delete_all" THEN "delete_all_loop" ELSE "done",
                        ![c].saves = @ + 1]
    /\ hist' = Stepped(c)
    /\ UNCHANGED <<db_mode, handle_dict, failure_info, ret, ser, inserted, keyorder, calls,
                   expect, other>>

\* delete_all, line 345: all_keys = [key for key in self.handle_dict]
DeleteAllCall(c) ==
    /\ ~Running(c) /\ calls < MaxCalls
    /\ pc' = [pc EXCEPT ![c] = [Idle EXCEPT !.at = "delete_all_loop", !.op = "delete_all",
                                            !.keys = KeySeq(handle_dict),
                                            !.before = handle_dict,
                                            !.persisted = Persisted]]
    /\ calls' = calls + 1
    /\ hist' = Stepped(c)
    /\ UNCHANGED <<db_mode, handle_dict, redis_db, files, failure_info, ret, ser, inserted,
                   keyorder, expect, lastsave, other>>

\* delete_all, lines 346-347: the next key of all_keys, and lines 327-329 of the delete
\* called for it; after the last key the loop is left
DeleteAllNext(c) ==
    /\ pc[c].at = "delete_all_loop"
    /\ IF pc[c].keys = <<>>
       THEN pc' = [pc EXCEPT ![c].at = "delete_all_save"]
       ELSE \E handle \in {get_handle_by_uid(handle_dict, Head(pc[c].keys))} :
               pc' = [pc EXCEPT ![c].at = IF handle # None THEN "delete_payload"
                                          ELSE "delete_all_loop",
                                ![c].uid = Head(pc[c].keys),
                                ![c].handle = handle,
                                ![c].shc = delete_all_shc,
                                ![c].keys = Tail(pc[c].keys)]
    /\ hist' = Stepped(c)
    /\ UNCHANGED <<db_mode, handle_dict, redis_db, files, failure_info, ret, ser, inserted,
                   keyorder, calls, expect, lastsave, other>>

\* delete_all, line 348: self.save()
DeleteAllSave(c) ==
    /\ pc[c].at = "delete_all_save"
    /\ \E sv \in {save(handle_dict, db_mode, redis_db, files)} :
          /\ redis_db' = sv.redis_db
          /\ files' = sv.files
    /\ lastsave' = Saved(handle_dict, db_mode)
    /\ pc' = [pc EXCEPT ![c].at = "done", ![c].saves = @ + 1]
    /\ hist' = Stepped(c)
    /\ UNCHANGED <<db_mode, handle_dict, failure_info, ret, ser, inserted, keyorder, calls,
                   expect, other>>

\* save(), lines 246-255, called by the caller itself
SaveCall(c) ==
    /\ ~Running(c) /\ calls < MaxCalls
    /\ \E sv \in {save(handle_dict, db_mode, redis_db, files)} :
          /\ redis_db' = sv.redis_db
          /\ files' = sv.files
    /\ lastsave' = Saved(handle_dict, db_mode)
    /\ pc' = [pc EXCEPT ![c] = [Idle EXCEPT !.at = "done", !.op = "save", !.saves = 1,
                                            !.before = handle_dict,
                                            !.persisted = Persisted]]
    /\ calls' = calls + 1
    /\ hist' = Stepped(c)
    /\ UNCHANGED <<db_mode, handle_dict, failure_info, ret, ser, inserted, keyorder, expect,
                   other>>

\* The caller is stopped inside a method (an exception such as KeyboardInterrupt, or the
\* death of the process): the remaining statements of the method are never run.  If the
\* process died (lose), what comes next is a new DataStore object: __init__, line 236.
Stop(c, lose) ==
    /\ Running(c)
    /\ hist.stopped.at = "idle"
    /\ hist' = [hist EXCEPT !.stopped = pc[c], !.lost = lose, !.quiet = TRUE]
    /\ pc' = [pc EXCEPT ![c].at = "stopped"]
    /\ handle_dict' = IF lose THEN <<>> ELSE handle_dict
    /\ UNCHANGED <<db_mode, redis_db, files, failure_info, ret, ser, inserted, keyorder, calls,
                   expect, lastsave, other>>

\* add(obj, uid) with the defaults, from start to end, on the second DataStore object
ClientAdd(obj, uid) ==
    /\ ~hist.clients
    /\ \E new_handle \in {StoreObjectHandle(uuid(uid), StepLabel, DefaultSuffix, "")} :
       \E hd1 \in {DictSet(other, uuid(uid), new_handle)} :
       \E st \in {store(new_handle, obj, db_mode, redis_db, files)} :
       \E sv \in {IF st.raised THEN [redis_db |-> st.redis_db, files |-> st.files]
                  ELSE save(hd1, db_mode, st.redis_db, st.files)} :
          /\ other' = hd1
          /\ redis_db' = sv.redis_db
          /\ files' = sv.files
          /\ lastsave' = IF st.raised THEN lastsave ELSE Saved(hd1, db_mode)
    /\ hist' = [hist EXCEPT !.clients = TRUE]
    /\ UNCHANGED <<db_mode, handle_dict, failure_info, ret, ser, inserted, keyorder, calls,
                   expect, pc>>

\* the statements of the methods that write, run by caller c
Statement(c, flags) ==
    \/ \E obj \in StepObjects, uid \in UUIDs, save_handle_changes \in flags :
          AddCall(c, obj, uid, StepLabel, save_handle_changes)
    \/ AddStore(c)
    \/ AddSave(c)
    \/ \E uid \in UUIDs, obj \in StepObjects : UpdateCall(c, uid, obj)
    \/ UpdateStore(c)
    \/ \E uid \in UUIDs, save_handle_changes \in flags : DeleteCall(c, uid, save_handle_changes)
    \/ DeletePayload(c)
    \/ DeleteHandle(c)
    \/ DeleteSave(c)
    \/ DeleteAllCall(c)
    \/ DeleteAllNext(c)
    \/ DeleteAllSave(c)
    \/ SaveCall(c)

\* One caller, which may be stopped inside a method and then goes on calling
NextSteps ==
    \/ Statement(1, BOOLEAN)
    \/ \E lose \in BOOLEAN : Stop(1, lose)
    \/ ~Running(1) /\ Load
    \/ ~Running(1) /\ \E uid \in UUIDs : Retrieve(uid)

SpecSteps == Init /\ [][NextSteps]_vars

\* Two threads on one DataStore object, and a second DataStore object on the same backend
NextRace ==
    \/ \E c \in Callers : Statement(c, {TRUE})
    \/ \E obj \in StepObjects, uid \in UUIDs : ClientAdd(obj, uid)

SpecRace == Init /\ [][NextRace]_vars


(***************************************************************************)
(* State machine of the callers of sc_fileio                               *)
(***************************************************************************)
SerObjects == {ObjX, ObjS, ObjF, ObjG}
DieValues == {"None", "False", "True"}
FileNames == {<<"x">>, <<"a", ":">>}
RefPool == {SimpleRef, NestedRef, GoneRef}

RefSeqs == UNION {[1..n -> RefPool] : n \in 0..MaxRefs}

\* Byte strings that reach loadstr from elsewhere: pickles written by another process
\* or another version of the program, a truncated pickle, an empty string, None
ForeignStrings ==
    {Gzip(<<[writer |-> "pickle", kind |-> "data", refs |-> r, val |-> "v"]>>) : r \in RefSeqs}
        \cup {Gzip(<<[writer |-> "dill", kind |-> "data", refs |-> <<DillMainRef>>, val |-> "v"]>>),
              Gzip(<<[writer |-> "pickle", kind |-> "trunc", refs |-> <<>>, val |-> "v"]>>),
              Gzip(<<>>), None}

DataStoreVars == <<db_mode, handle_dict, redis_db, ret, inserted, keyorder, calls, expect,
                   lastsave, pc, other, hist>>

\* obj -> dumpstr(obj)
DumpStr(obj) ==
    /\ \E d \in {dumpstr(obj)} :
          ser' = [NoSer("dumpstr") EXCEPT !.obj = obj, !.string = d.result, !.raised = d.raised]
    /\ UNCHANGED <<DataStoreVars, files, failure_info>>

\* loadstr(string, die), string being what the last dumpstr returned
LoadStr(die) ==
    /\ ser.op = "dumpstr" /\ ~ser.raised
    /\ Len(failure_info) < MaxFailures
    /\ \E l \in {loadstr(ser.string, die, failure_info)} :
          /\ ser' = [NoSer("loadstr") EXCEPT !.src = "dumpstr", !.obj = ser.obj,
                                             !.string = ser.string, !.die = die,
                                             !.raised = l.raised, !.result = l.obj,
                                             !.attempts = l.attempts, !.unpickled = TRUE]
          /\ failure_info' = l.failure_info
    /\ UNCHANGED <<DataStoreVars, files>>

\* loadstr(string, die), string coming from elsewhere
LoadStrForeign(string, die) ==
    /\ Len(failure_info) < MaxFailures
    /\ \E l \in {loadstr(string, die, failure_info)} :
          /\ ser' = [NoSer("loadstr") EXCEPT !.src = "foreign", !.string = string, !.die = die,
                                             !.raised = l.raised, !.result = l.obj,
                                             !.attempts = l.attempts, !.unpickled = TRUE]
          /\ failure_info' = l.failure_info
    /\ UNCHANGED <<DataStoreVars, files>>

\* fullpath = saveobj(filename, obj, method=method)
SaveObj(filename, obj, method) ==
    /\ \E w \in {saveobj(filename, obj, method, files)} :
          /\ files' = w.files
          /\ ser' = [NoSer("saveobj") EXCEPT !.obj = obj, !.path = w.fullpath,
                                             !.raised = w.raised,
                                             !.string = w.files[w.fullpath]]
    /\ UNCHANGED <<DataStoreVars, failure_info>>

\* loadobj(fullpath, die=die), fullpath being what the last saveobj returned
LoadObj(die) ==
    /\ ser.op = "saveobj" /\ ~ser.raised
    /\ Len(failure_info) < MaxFailures
    /\ \E l \in {loadobj(ser.path, die, files, failure_info)} :
          /\ ser' = [NoSer("loadobj") EXCEPT !.src = "saveobj", !.obj = ser.obj,
                                             !.path = ser.path, !.string = ser.string,
                                             !.die = die, !.raised = l.raised,
                                             !.result = l.obj, !.attempts = l.attempts,
                                             !.unpickled = (l.attempts # <<>>)]
          /\ failure_info' = l.failure_info
    /\ UNCHANGED <<DataStoreVars, files>>

\* loadobj(filename, die=die) for a file name the caller made up
LoadObjByName(filename, die) ==
    /\ Len(failure_info) < MaxFailures
    /\ \E l \in {loadobj(filename, die, files, failure_info)} :
       \E path \in {makefilepath(filename, FALSE)} :
          /\ ser' = [NoSer("loadobj") EXCEPT !.src = "name", !.path = path,
                                             !.string = IF path \in DOMAIN files
                                                        THEN files[path] ELSE None,
                                             !.die = die, !.raised = l.raised,
                                             !.result = l.obj, !.attempts = l.attempts,
                                             !.unpickled = (l.attempts # <<>>)]
          /\ failure_info' = l.failure_info
    /\ UNCHANGED <<DataStoreVars, files>>

NextSer ==
    \/ \E obj \in SerObjects : DumpStr(obj)
    \/ \E die \in DieValues : LoadStr(die)
    \/ \E string \in ForeignStrings, die \in DieValues : LoadStrForeign(string, die)
    \/ \E filename \in FileNames, obj \in SerObjects, method \in {"pickle", "dill"} :
          SaveObj(filename, obj, method)
    \/ \E die \in DieValues : LoadObj(die)
    \/ \E filename \in FileNames, die \in DieValues : LoadObjByName(filename, die)

\* The serializer is exercised on its own: no DataStore call is made, whatever the mode
InitSer == Init /\ db_mode = "redis"

SpecSer == InitSer /\ [][NextSer]_vars


(***************************************************************************)
(* Properties of the DataStore                                             *)
(***************************************************************************)
\* where the payload of handle h is, if the store wrote one for it
PayloadPresent(h) ==
    IF db_mode = "redis" THEN key_name(h) \in DOMAIN redis_db
    ELSE makefilepath(full_file_name(h, DotDir), TRUE) \in DOMAIN files

PersistedEqualsMemory == Persisted.present /\ Persisted.handle_dict = handle_dict

\* C1: after add(x, uid=u), and until the next update, delete, delete_all or add on u (or
\* a wipe of the backend), retrieve(u) returns x, in either backend mode.
C1_AddThenRetrieve ==
    (ret.op = "retrieve" /\ expect[ret.uid].by = "add")
        => (~ret.raised /\ ret.found /\ ret.obj = expect[ret.uid].obj)

\* C2: after update(u, y) on an identifier that has a handle, retrieve(u) returns y until
\* the next update, delete or add on u.
C2_UpdateReplaces ==
    (ret.op = "retrieve" /\ expect[ret.uid].by = "update")
        => (~ret.raised /\ ret.found /\ ret.obj = expect[ret.uid].obj)

\* C3: after delete(u) of an identifier that had a handle, the handle is gone from the
\* index, the payload of that handle is gone from the backend, and retrieve(u) and
\* get_handle_by_uid(u) return None until u is added again.
C3_DeleteThenNotFound ==
    /\ (ret.op = "delete" /\ ret.found)
          => (ret.uid \notin Keys(handle_dict) /\ ~PayloadPresent(ret.handle))
    /\ (ret.op \in {"retrieve", "get_handle_by_uid"} /\ expect[ret.uid].by = "delete")
          => (~ret.found /\ ~ret.raised)

\* C4: after delete_all() the in-memory index is empty, the persisted index is empty,
\* the payload of every handle the index held is gone from the backend, and retrieve
\* finds nothing for any identifier.
C4_DeleteAllEmpties ==
    /\ ret.op = "delete_all"
          => /\ handle_dict = <<>>
             /\ Persisted.present /\ Persisted.handle_dict = <<>>
             /\ \A i \in 1..Len(ret.before) : ~PayloadPresent(ret.before[i])
             /\ \A u \in UUIDs : get_handle_by_uid(handle_dict, u) = None
    /\ (ret.op = "retrieve" /\ handle_dict = <<>>) => (~ret.found /\ ~ret.raised)

\* the identifiers of the handles of the index that carry both the prefix and the label
MatchingUids(type_prefix, instance_label) ==
    {handle_dict[i].uid : i \in {j \in 1..Len(handle_dict) :
                                    /\ handle_dict[j].type_prefix = type_prefix
                                    /\ handle_dict[j].instance_label = instance_label}}

\* the member of S that comes first in the sequence order
FirstIn(order, S) ==
    order[CHOOSE i \in 1..Len(order) : order[i] \in S /\ \A j \in 1..(i - 1) : order[j] \notin S]

\* C5: get_uid returns None when no handle carries both the prefix and the label, and
\* otherwise the identifier of the matching handle that was put into the index earliest;
\* it warns if and only if more than one handle matches.
C5_FirstByHandleInsertion ==
    ret.op = "get_uid"
        => LET m == MatchingUids(ret.prefix, ret.label) IN
           /\ ret.warned <=> Cardinality(m) > 1
           /\ ret.uid = IF m = {} THEN NoneUid ELSE FirstIn(inserted, m)

\* C5 (amended): get_uid returns None when no handle matches, and otherwise the matching
\* identifier whose key entered the index earliest (a handle that replaces another under
\* the same identifier takes over the place of that key); it warns if and only if more
\* than one handle matches.
C5_FirstByKeyOrder ==
    ret.op = "get_uid"
        => LET m == MatchingUids(ret.prefix, ret.label) IN
           /\ ret.warned <=> Cardinality(m) > 1
           /\ ret.uid = IF m = {} THEN NoneUid ELSE FirstIn(keyorder, m)

\* several handles match, and the one that was put into the index last sits under the
\* oldest key
C5_Witness ==
    /\ ret.op = "get_uid" /\ ret.warned
    /\ Cardinality(MatchingUids(ret.prefix, ret.label)) > 1
    /\ inserted # keyorder
    /\ ret.uid = keyorder[1]

\* C6: after each add, update, delete and delete_all that completes, the index persisted
\* in the backend equals the in-memory index.
C6_EveryMutationPersists ==
    (ret.op \in {"add", "update", "delete", "delete_all"} /\ ~ret.raised)
        => PersistedEqualsMemory

\* C6 (amended): an add that completes and a delete of an identifier that has a handle,
\* both with save_handle_changes left True, and every delete_all, leave the persisted
\* index equal to the in-memory index; update, delete of an identifier without a handle,
\* and add or delete with save_handle_changes=False leave the persisted index as it was.
C6_SavesWhenAsked ==
    /\ (ret.op = "add" /\ ~ret.raised /\ ret.shc) => PersistedEqualsMemory
    /\ (ret.op = "delete" /\ ret.found /\ ret.shc) => PersistedEqualsMemory
    /\ (ret.op = "delete_all") => PersistedEqualsMemory
    /\ (ret.op = "update") => (Persisted = ret.persisted)
    /\ (ret.op = "delete" /\ ~ret.found) => (Persisted = ret.persisted)
    /\ (ret.op \in {"add", "delete"} /\ ~ret.shc) => (Persisted = ret.persisted)

\* an add has just saved an index of two handles, one of which was not persisted before
C6_Witness ==
    /\ ret.op = "add" /\ ~ret.raised /\ ret.shc
    /\ Len(handle_dict) = 2
    /\ ret.persisted.handle_dict # handle_dict
    /\ PersistedEqualsMemory

\* no index has been saved to the backend a store in the given mode reads
IndexAbsent(mode) ==
    IF mode = "redis" THEN HandleDictKey \notin DOMAIN redis_db
    ELSE ospath(IndexFile) \notin DOMAIN files

\* C11: when the backend holds no saved index (the Redis key of the index is absent, or
\* the index file is absent in file mode), load() prints its message, does not raise, and
\* leaves the in-memory index and the mode as they were.
C11_LoadUninitialized ==
    (ret.op = "load" /\ IndexAbsent(ret.mode))
        => /\ ret.printed /\ ~ret.raised
           /\ handle_dict = ret.before
           /\ db_mode = ret.mode

\* load was called on a store whose index holds a handle that was never saved
C11_Witness ==
    /\ ret.op = "load" /\ ret.printed /\ IndexAbsent(ret.mode)
    /\ ret.before # <<>> /\ handle_dict = ret.before
    /\ db_mode = "file"

\* the keys of the Redis database that hold payloads (all but the two of the saved index)
PayloadKeys == DOMAIN redis_db \ {HandleDictKey, DbModeKey}

\* C12: after any sequence of completed add, update, delete and delete_all calls of one
\* caller, every handle of the index has a payload under its key (type prefix, "-", uid
\* hex), and every payload key is the key of exactly one handle of the index.
C12_OneToOneLink ==
    /\ \A i \in 1..Len(handle_dict) : key_name(handle_dict[i]) \in PayloadKeys
    /\ \A k \in PayloadKeys :
          Cardinality({i \in 1..Len(handle_dict) : key_name(handle_dict[i]) = k}) = 1

\* the handles of the index hd, whatever their order: uid -> handle
HandleMap(hd) == [u \in Keys(hd) |-> DictGet(hd, u)]

\* what add, delete, delete_all and the calls that only read do to the handles
HandlesFollowCalls ==
    /\ ret.op = "add"
          => HandleMap(handle_dict) =
                [u \in Keys(ret.before) \cup {ret.uid} |->
                    IF u = ret.uid
                    THEN [uid |-> ret.uid, type_prefix |-> ret.prefix,
                          file_suffix |-> DefaultSuffix, instance_label |-> ret.label]
                    ELSE DictGet(ret.before, u)]
    /\ ret.op = "delete"
          => HandleMap(handle_dict) =
                [u \in Keys(ret.before) \ {ret.uid} |-> DictGet(ret.before, u)]
    /\ ret.op = "delete_all" => handle_dict = <<>>
    /\ ret.op \in {"update", "retrieve", "get_uid", "get_handle_by_uid", "save",
                   "clear_redis_keys"}
          => handle_dict = ret.before

\* C13: a handle exists in the index for u exactly from the add that created it until the
\* delete or delete_all of u, and until then its fields change only by a later add of u,
\* which replaces it: no other call (update, retrieve, get_uid, get_handle_by_uid
\* included) creates, removes or changes a handle.
C13_HandleLifecycle ==
    /\ HandlesFollowCalls
    /\ ret.op = "load" => handle_dict = ret.before

\* C13 (amended): a handle exists in the index for u from the add that created it until
\* the delete or delete_all of u, or until a load() that finds a saved index and puts it
\* in the place of the in-memory one; until then its fields change only by a later add
\* of u; update, retrieve, get_uid, get_handle_by_uid, save and clear_redis_keys never
\* create, remove or change a handle.
C13_HandleLifecycleOrLoad ==
    /\ HandlesFollowCalls
    /\ ret.op = "load"
          => handle_dict = IF ret.printed THEN ret.before ELSE ret.persisted.handle_dict

\* a load has put the saved index in the place of one that held a handle never saved
C13_Witness ==
    /\ ret.op = "load" /\ ~ret.printed
    /\ ret.before # <<>> /\ handle_dict # ret.before
    /\ \E u \in Keys(ret.before) : u \notin Keys(handle_dict)

\* an add of an identifier the persisted index did not hold was stopped after its payload
\* write and before its save
AddStopped ==
    /\ hist.stopped.op = "add" /\ hist.stopped.at = "add_save"
    /\ hist.stopped.uid \notin Keys(hist.stopped.persisted.handle_dict)

\* a delete of a handle the persisted index held was stopped after its payload removal
\* and before its save
DeleteStopped ==
    /\ hist.stopped.op = "delete" /\ hist.stopped.at \in {"delete_handle", "delete_save"}
    /\ DictGet(hist.stopped.persisted.handle_dict, hist.stopped.uid) = hist.stopped.handle

\* a stored payload whose handle the persisted index does not hold
PayloadNotIndexed(h) == PayloadPresent(h) /\ h.uid \notin Keys(Persisted.handle_dict)

\* a handle of the persisted index whose payload is not stored
IndexedNoPayload(h) == ~PayloadPresent(h) /\ DictGet(Persisted.handle_dict, h.uid) = h

\* C14: an add stopped between its payload write and its save leaves a payload with no
\* persisted handle, a delete stopped between its payload removal and its save leaves a
\* persisted handle whose payload is missing, and nothing the store does later brings
\* the persisted index and the payloads back in agreement.
C14_NeverRepaired ==
    /\ AddStopped => PayloadNotIndexed(hist.stopped.handle)
    /\ DeleteStopped => IndexedNoPayload(hist.stopped.handle)

\* C14 (amended): the same disagreement, which lasts as long as the calls made after the
\* interruption are load() and calls that only read; a later call that saves the index
\* or writes or deletes a payload can end it.
C14_NotRepairedByReads ==
    /\ (AddStopped /\ hist.quiet) => PayloadNotIndexed(hist.stopped.handle)
    /\ (DeleteStopped /\ hist.quiet) => IndexedNoPayload(hist.stopped.handle)

\* after an interrupted add, a load() has read a saved index that lacks the handle of the
\* payload the add wrote
C14_Witness ==
    /\ AddStopped /\ hist.quiet
    /\ ret.op = "load" /\ ~ret.printed
    /\ PayloadNotIndexed(hist.stopped.handle)
    /\ hist.stopped.uid \notin Keys(handle_dict)

\* where the backend holds payloads: every Redis key or file but those of the saved index
PayloadPlaces ==
    IF db_mode = "redis" THEN DOMAIN redis_db \ {HandleDictKey, DbModeKey}
    ELSE DOMAIN files \ {ospath(IndexFile)}

\* where redis_store or file_store puts the payload of handle h
Place(h) ==
    IF db_mode = "redis" THEN key_name(h) ELSE makefilepath(full_file_name(h, DotDir), TRUE)

\* the handles of the in-memory indexes of the two DataStore objects
AllHandles == Range(handle_dict) \cup Range(other)

AllResting == \A c \in Callers : ~Running(c)

\* a stored payload whose handle is in no index
OrphanPayload == \E k \in PayloadPlaces : \A h \in AllHandles : Place(h) # k

\* a handle of an in-memory index that the persisted index does not hold
LostHandle == \E h \in AllHandles : DictGet(Persisted.handle_dict, h.uid) # h

C16_AddReturnsIdentifier ==
    (ret.op = "add" /\ ~ret.raised)
        => /\ DictGet(handle_dict, ret.uid) =
                 [uid |-> ret.uid, type_prefix |-> ret.prefix, file_suffix |-> DefaultSuffix,
                  instance_label |-> ret.label]
           /\ ret.arg # NoneUid => ret.uid = ret.arg
           /\ ret.arg = NoneUid
                 => /\ ret.uid \in UUIDs \ Keys(ret.before)
                    /\ Len(handle_dict) = Len(ret.before) + 1
                    /\ \A u \in Keys(ret.before) :
                          DictGet(handle_dict, u) = DictGet(ret.before, u)

\* an add without a uid has returned an identifier next to the one the index held
C16_Witness ==
    /\ ret.op = "add" /\ ~ret.raised /\ ret.arg = NoneUid
    /\ Len(ret.before) = 1 /\ Len(handle_dict) = 2
    /\ handle_dict[2].uid = ret.uid

C18_DeleteAllSavesOnce ==
    pc[1].op = "delete_all"
        => /\ pc[1].at \in {"delete_all_loop", "delete_payload", "delete_handle",
                             "delete_save", "delete_all_save"}
                 => (pc[1].saves = 0 /\ Persisted = pc[1].persisted)
           /\ pc[1].at \in {"delete_all_save", "done"}
                 => \A u \in Keys(pc[1].before) : u \notin Keys(handle_dict)
           /\ pc[1].at = "done" => (pc[1].saves = 1 /\ PersistedEqualsMemory)

\* delete_all has deleted the two handles it found and is about to save: the persisted
\* index still holds both
C18_Witness ==
    /\ pc[1].op = "delete_all" /\ pc[1].at = "delete_all_save"
    /\ Len(pc[1].before) = 2 /\ handle_dict = <<>>
    /\ Persisted.present /\ Persisted.handle_dict = pc[1].before

\* the last call was an add or a delete with save_handle_changes=False that did its work
UnsavedCall ==
    /\ ret.op \in {"add", "delete"} /\ ~ret.shc
    /\ ret.op = "add" => ~ret.raised
    /\ ret.op = "delete" => ret.found

\* the last call was one that saves the index
SavingCall ==
    \/ ret.op \in {"save", "delete_all"}
    \/ ret.op = "add" /\ ret.shc /\ ~ret.raised
    \/ ret.op = "delete" /\ ret.shc /\ ret.found

\* C19: an add or a delete with save_handle_changes=False leaves the persisted index
\* exactly as it was; from then on the persisted index differs from the in-memory index
\* until the next call that saves (save, delete_all, add or delete with
\* save_handle_changes=True), after which the two are equal.
C19_DiffersUntilSaved ==
    /\ UnsavedCall => Persisted = ret.persisted
    /\ ret.unsaved => ~PersistedEqualsMemory
    /\ SavingCall => PersistedEqualsMemory

\* C19 (amended): an add or a delete with save_handle_changes=False leaves the persisted
\* index exactly as it was, so that the two differ after it if they were equal before it
\* and the call changed the in-memory index; the next call that saves leaves the two
\* equal; so does a load() that finds a saved index, without any save.
C19_UnsavedUntilSavedOrLoaded ==
    /\ UnsavedCall => Persisted = ret.persisted
    /\ (UnsavedCall /\ ret.persisted.present /\ ret.persisted.handle_dict = ret.before
           /\ handle_dict # ret.before)
          => ~PersistedEqualsMemory
    /\ SavingCall => (PersistedEqualsMemory /\ ~ret.unsaved)
    /\ (ret.op = "load" /\ ~ret.printed /\ ~ret.raised) => PersistedEqualsMemory

\* a load() has made the in-memory index equal to the persisted one after an add with
\* save_handle_changes=False, and nothing has saved since
C19_Witness ==
    /\ ret.op = "load" /\ ret.unsaved /\ ~ret.printed
    /\ handle_dict # ret.before
    /\ PersistedEqualsMemory

\* the last call was a retrieve, update or delete of an identifier the index did not hold
NoHandleCall ==
    ret.op \in {"retrieve", "update", "delete"} /\ ret.uid \notin Keys(ret.before)

\* C20: retrieve, update and delete of an identifier that has no handle in the index
\* return None and change nothing: no payload is written or deleted, the in-memory index
\* stays as it was, and update and delete do not save the index.
C20_UnknownIdIsNoOp ==
    NoHandleCall
        => /\ ~ret.found /\ ~ret.raised /\ ret.handle = None
           /\ ret.op = "retrieve" => ret.obj = NoObj
           /\ redis_db = ret.backend.redis_db
           /\ files = ret.backend.files
           /\ handle_dict = ret.before
           /\ ret.op \in {"update", "delete"} => (~ret.saved /\ Persisted = ret.persisted)

\* an update of an identifier without a handle has left a store that holds the payload
\* and the handle of another identifier as it was
C20_Witness ==
    /\ ret.op = "update" /\ ret.uid \notin Keys(ret.before) /\ ret.obj # NoObj
    /\ Len(handle_dict) = 1 /\ PayloadPresent(handle_dict[1])
    /\ Persisted.present /\ Persisted.handle_dict = handle_dict

\* the last call was clear_redis_keys() on a store that has a Redis database
Cleared == ret.op = "clear_redis_keys" /\ ret.mode = "redis"

\* C23: clear_redis_keys on a Redis-backed store leaves no key in the database, neither
\* payload keys nor the two keys of the persisted index, and leaves the in-memory index
\* as it was: a load() then prints that the store has not been saved yet and changes
\* nothing, and no handle of the in-memory index has a payload in the backend (retrieving
\* it raises). A load() finds no saved index until something saves again.
C23_ClearRedisKeys ==
    /\ Cleared
          => /\ ~ret.raised
             /\ DOMAIN redis_db = {}
             /\ files = ret.backend.files
             /\ handle_dict = ret.before /\ db_mode = ret.mode
             /\ With(load(handle_dict, db_mode, redis_db, files, failure_info), LAMBDA l :
                     l.printed /\ ~l.raised /\ l.handle_dict = handle_dict
                        /\ l.db_mode = db_mode)
             /\ \A i \in 1..Len(handle_dict) :
                    /\ ~PayloadPresent(handle_dict[i])
                    /\ redis_retrieve(handle_dict[i], redis_db, failure_info).raised
    /\ (ret.op = "load" /\ ret.mode = "redis" /\ lastsave = None)
          => (ret.printed /\ handle_dict = ret.before)

\* clear_redis_keys found a payload and the two index keys in the database and left a
\* non-empty in-memory index
C23_Witness ==
    /\ Cleared
    /\ {HandleDictKey, DbModeKey} \subseteq DOMAIN ret.backend.redis_db
    /\ Len(handle_dict) >= 1
    /\ \A i \in 1..Len(handle_dict) : key_name(handle_dict[i]) \in DOMAIN ret.backend.redis_db
    /\ DOMAIN redis_db = {}


(***************************************************************************)
(* Properties of the serializer                                            *)
(***************************************************************************)
\* the pickle string the last load handed to unpickler
PickleString == IF ser.string = None THEN <<>> ELSE ser.string.data

\* C7: for an object x of primitive, container or simple-object kind,
\* loadstr(dumpstr(x)) equals x, and loadobj of the file saveobj(filename, x) wrote
\* equals x.
C7_RoundTrip ==
    /\ (ser.op = "loadstr" /\ ser.src = "dumpstr" /\ ser.obj.kind = "data")
          => (~ser.raised /\ ser.result = ser.obj)
    /\ (ser.op = "loadobj" /\ ser.src = "saveobj" /\ ser.obj.kind = "data")
          => (~ser.raised /\ ser.result = ser.obj)

\* an instance of a class came back from a file whose name was sanitized
C7_Witness ==
    /\ ser.op = "loadobj" /\ ser.src = "saveobj"
    /\ ser.obj = ObjS /\ ser.result = ObjS
    /\ ser.path = Cwd \o <<"/", "a", "_">>

\* C8: when pickle fails on an object that dumpstr or saveobj does serialize, what they
\* wrote is exactly the gzip of dill's bytes, nothing of the failed pickle attempt, and
\* loading it back gives an object equal to the original.
C8_FallbackOnSave ==
    /\ (ser.op \in {"dumpstr", "saveobj"} /\ ~PklDumps(ser.obj).ok /\ ~ser.raised)
          => (ser.string = Gzip(DillDumps(ser.obj).bytes))
    /\ (ser.op \in {"loadstr", "loadobj"} /\ ser.src \in {"dumpstr", "saveobj"}
           /\ ~PklDumps(ser.obj).ok)
          => /\ ser.string = Gzip(DillDumps(ser.obj).bytes)
             /\ ~ser.raised
             /\ ser.result = ser.obj

\* a function that pickle refused came back from a file saved with the default method
C8_Witness ==
    /\ ser.op = "loadobj" /\ ser.src = "saveobj"
    /\ ser.obj = ObjF /\ ser.result = ObjF
    /\ ser.string.data[1].writer = "dill"

\* C9: unpickler tries pickle first, dill only if pickle failed, the RobustUnpickler only
\* if both failed, and returns what the first of them to succeed built.
C9_StrategyOrder ==
    ser.unpickled
        => LET p == PklLoads(PickleString)
               q == DillLoads(PickleString)
               r == RobustLoad(PickleString, <<>>)
           IN /\ ser.attempts \in {<<"pickle">>, <<"pickle", "dill">>,
                                   <<"pickle", "dill", "robust">>}
              /\ Len(ser.attempts) >= 2 => ~p.ok
              /\ Len(ser.attempts) = 3 => ~q.ok
              /\ ~ser.raised
                    => /\ ser.result = IF p.ok THEN p.obj ELSE IF q.ok THEN q.obj ELSE r.obj
                       /\ Len(ser.attempts) = IF p.ok THEN 1 ELSE IF q.ok THEN 2 ELSE 3

\* pickle and dill both failed on a stream and the RobustUnpickler built the result
C9_Witness ==
    /\ ser.unpickled /\ ~ser.raised
    /\ ser.attempts = <<"pickle", "dill", "robust">>
    /\ ~PklLoads(PickleString).ok /\ ~DillLoads(PickleString).ok

\* the globals of the loaded stream that no import resolves
Unresolvable ==
    IF PickleString = <<>> \/ Head(PickleString).kind = "trunc" THEN {}
    ELSE {ref \in Range(Head(PickleString).refs) : ref \notin Defined \cup {DillMainRef}}

\* C10: loading, with die unset, a payload that names a class that cannot be resolved
\* does not raise; the result carries the Failed placeholder for that class and
\* Failed.failure_info holds an entry with its module name, its class name and the error.
C10_MissingClassTolerated ==
    (ser.unpickled /\ ser.die = "None" /\ Unresolvable # {})
        => /\ ~ser.raised
           /\ FailedRef \in Range(ser.result.classes)
           /\ \A ref \in Unresolvable :
                 \E i \in 1..Len(failure_info) :
                    /\ failure_info[i].module = ref.module
                    /\ failure_info[i].class = ref.name
                    /\ failure_info[i].error # ""

\* C21: when pkl.loads fails, unpickler with die=True raises that error and tries neither
\* dill.loads nor the RobustUnpickler; with die unset or False it raises nothing before
\* both dill.loads and the RobustUnpickler have been tried.
C21_DiePropagates ==
    (ser.unpickled /\ ~PklLoads(PickleString).ok)
        => /\ ser.die = "True" => (ser.raised /\ ser.attempts = <<"pickle">>)
           /\ ser.die \in {"None", "False"}
                 => /\ Len(ser.attempts) >= 2
                    /\ ser.raised => ser.attempts = <<"pickle", "dill", "robust">>

\* a load with die=True raised on a stream that dill.loads would have loaded
C21_Witness ==
    /\ ser.unpickled /\ ser.die = "True" /\ ser.raised
    /\ ser.attempts = <<"pickle">>
    /\ ~PklLoads(PickleString).ok /\ DillLoads(PickleString).ok

\* the class-resolution failures of a pass of RobustUnpickler.find_class over the globals
\* of a stream: the globals no import resolves, up to the first global whose lookup raises
RECURSIVE ResolutionFailures(_)
ResolutionFailures(refs) ==
    IF refs = <<>> THEN 0
    ELSE IF Head(refs) \notin Defined THEN 1 + ResolutionFailures(Tail(refs))
    ELSE IF find_class(Head(refs), <<>>).raised THEN 0
    ELSE ResolutionFailures(Tail(refs))

\* the class-resolution failures of the last load: those of the RobustUnpickler, if it ran
LoadFailures ==
    IF /\ ser.op \in {"loadstr", "loadobj"}
       /\ ser.attempts = <<"pickle", "dill", "robust">>
       /\ PickleString # <<>>
       /\ Head(PickleString).kind # "trunc"
    THEN ResolutionFailures(Head(PickleString).refs)
    ELSE 0

\* C22: Failed.failure_info only grows: every step keeps the entries it found, a load adds
\* one entry per class-resolution failure of the RobustUnpickler and nothing else adds
\* any, and the keys are 'Failure 1' .. 'Failure k' in order, so that the registry a
\* placeholder shows holds the failures of earlier loads too.
C22_FailuresAccumulate ==
    [][/\ Len(failure_info') >= Len(failure_info)
       /\ SubSeq(failure_info', 1, Len(failure_info)) = failure_info
       /\ Len(failure_info') = Len(failure_info) + LoadFailures'
       /\ \A i \in 1..Len(failure_info') : failure_info'[i].key = <<"Failure", i>>]_vars

\* a load returned a placeholder and the registry holds more entries than that load made
C22_Witness ==
    /\ ser.unpickled /\ ~ser.raised
    /\ FailedRef \in Range(ser.result.classes)
    /\ LoadFailures >= 1
    /\ Len(failure_info) > LoadFailures
    /\ \A i \in 1..Len(failure_info) : failure_info[i].key = <<"Failure", i>>

====
